---- MODULE Spec2Model ----
(***************************************************************************)
(* mimemail: the MIMEMail message builder (set_body, set_recipients,       *)
(* set_attachments, send) and the command line driver main().              *)
(*                                                                         *)
(* Text is a sequence of Unicode code points, encoded text a sequence of   *)
(* bytes.  A recipient class name is a sequence of character codes, so     *)
(* that str.lower() is computed.  A file path is the sequence of its       *)
(* '/'-separated components.  A header value is a sequence of tokens.      *)
(***************************************************************************)
EXTENDS Integers, Sequences, FiniteSets, TLC

VARIABLES
    message,        \* self.message: [parts, headers, preamble, epilogue]
    recipients,     \* self.recipients: class name -> value
    session,        \* the SMTP session opened by smtp_session(): "closed" | "open"
    sendmail_calls, \* the calls of smtp.sendmail, in order
    pc,             \* "api": a caller drives the builder; "consumed": send was called;
                    \* "main_*": position of main()
    args,           \* the parsed command line of main()
    error,          \* the exception raised by the last call ("none" when it returned)
    call,           \* the last call: its name and its arguments
    body_log,       \* the texts given to set_body, in call order
    attach_log,     \* the paths given to set_attachments that it attached a part for
    body_source     \* the source main() read the body from

vars == <<message, recipients, session, sendmail_calls, pc, args, error, call,
          body_log, attach_log, body_source>>

---------------------------------------------------------------------------
(* Bounds of the model *)

MaxBodyLen == 2     \* code points in a body text
MaxParts == 2       \* parts a caller attaches to one message
MaxPaths == 2       \* paths in one set_attachments call
MaxAddrs == 1       \* addresses in one recipient list

None == "None"

RECURSIVE SeqsUpTo(_, _)
SeqsUpTo(S, n) ==
    IF n = 0 THEN {<<>>}
    ELSE LET shorter == SeqsUpTo(S, n - 1)
         IN  shorter \cup {Append(s, x) : s \in shorter, x \in S}

---------------------------------------------------------------------------
(* Character sets: str.encode / str.decode *)

\* 'A', e-acute (Latin-1), the euro sign (outside Latin-1)
CodePoints == {65, 233, 8364}

BodyTexts == SeqsUpTo(CodePoints, MaxBodyLen)

Utf8Char(cp) ==
    IF cp < 128 THEN <<cp>>
    ELSE IF cp < 2048 THEN <<192 + (cp \div 64), 128 + (cp % 64)>>
    ELSE IF cp < 65536 THEN
        <<224 + (cp \div 4096), 128 + ((cp \div 64) % 64), 128 + (cp % 64)>>
    ELSE <<240 + (cp \div 262144), 128 + ((cp \div 4096) % 64),
           128 + ((cp \div 64) % 64), 128 + (cp % 64)>>

RECURSIVE Utf8Encode(_)
Utf8Encode(text) ==
    IF text = <<>> THEN <<>>
    ELSE Utf8Char(Head(text)) \o Utf8Encode(Tail(text))

RECURSIVE Utf8Decode(_)
Utf8Decode(bytes) ==
    IF bytes = <<>> THEN <<>>
    ELSE LET b == bytes[1]
             n == IF b < 128 THEN 1 ELSE IF b < 224 THEN 2 ELSE IF b < 240 THEN 3 ELSE 4
             cp == IF n = 1 THEN b
                   ELSE IF n = 2 THEN (b - 192) * 64 + (bytes[2] - 128)
                   ELSE IF n = 3 THEN (b - 224) * 4096 + (bytes[2] - 128) * 64
                                      + (bytes[3] - 128)
                   ELSE (b - 240) * 262144 + (bytes[2] - 128) * 4096
                        + (bytes[3] - 128) * 64 + (bytes[4] - 128)
         IN  <<cp>> \o Utf8Decode(SubSeq(bytes, n + 1, Len(bytes)))

\* text.encode(charset): ok is FALSE where Python raises UnicodeError
Encode(text, charset) ==
    IF charset = "ascii" THEN
        [ok |-> \A i \in 1..Len(text) : text[i] < 128, bytes |-> text]
    ELSE IF charset = "iso-8859-1" THEN
        [ok |-> \A i \in 1..Len(text) : text[i] < 256, bytes |-> text]
    ELSE [ok |-> TRUE, bytes |-> Utf8Encode(text)]

\* bytes.decode(charset), for the charset names a part is tagged with
Decode(bytes, charset) ==
    IF charset = "utf-8" THEN Utf8Decode(bytes) ELSE bytes

\* email.charset: the canonical name and the body transfer encoding of a charset
CanonicalCharset(charset) == IF charset = "ascii" THEN "us-ascii" ELSE charset

BodyEncoding(charset) ==
    IF charset = "us-ascii" THEN "7bit"
    ELSE IF charset = "iso-8859-1" THEN "quoted-printable"
    ELSE "base64"

---------------------------------------------------------------------------
(* MIME parts *)

\* MIMEText(data, subtype, charset)
MIMEText(data, subtype, charset) ==
    [class |-> "MIMEText", maintype |-> "text", subtype |-> subtype,
     charset |-> CanonicalCharset(charset),
     cte |-> BodyEncoding(CanonicalCharset(charset)),
     payload |-> data, disposition |-> "", filename |-> ""]

\* MIMEImage, MIMEAudio, MIMEApplication: the default encoder is encode_base64
MIMEBinary(class, maintype, data, subtype) ==
    [class |-> class, maintype |-> maintype, subtype |-> subtype, charset |-> "",
     cte |-> "base64", payload |-> data, disposition |-> "", filename |-> ""]

\* MIMEBase(maintype, subtype); set_payload(data); encode_base64(attachment)
MIMEBaseEncoded(maintype, subtype, data) ==
    [class |-> "MIMEBase", maintype |-> maintype, subtype |-> subtype, charset |-> "",
     cte |-> "base64", payload |-> data, disposition |-> "", filename |-> ""]

\* attachment.add_header('Content-Disposition', 'attachment', filename=...)
AddDisposition(part, filename) ==
    [part EXCEPT !.disposition = "attachment", !.filename = filename]

---------------------------------------------------------------------------
(* set_body *)

\* a faulty order of the charsets (utf-8 tried before iso-8859-1)
BodyCharsetsLatinLast == <<"ascii", "utf-8", "iso-8859-1">>

\* the charsets set_body tries, in order
BodyCharsets == <<"ascii", "iso-8859-1", "utf-8">>

\* the first charset of cs, from index i on, under which text encodes
RECURSIVE FirstCharset(_, _, _)
FirstCharset(text, cs, i) ==
    IF i > Len(cs) THEN None
    ELSE IF Encode(text, cs[i]).ok THEN cs[i]
    ELSE FirstCharset(text, cs, i + 1)

\* the part set_body attaches for a text
BodyPart(text) ==
    LET cs == FirstCharset(text, BodyCharsets, 1)
    IN  IF cs = None
        THEN \* no charset encoded the text: the text itself is attached
             [class |-> "unicode", maintype |-> "", subtype |-> "", charset |-> "",
              cte |-> "", payload |-> text, disposition |-> "", filename |-> ""]
        ELSE MIMEText(Encode(text, cs).bytes, "plain", cs)

---------------------------------------------------------------------------
(* The file system and mimetypes.guess_type *)

PathQ3 == <<"tmp", "reports", "Q3.pdf">>
PathNotes == <<"notes.txt">>
PathXyz == <<"data.xyz">>
PathGz == <<"home", "logs.txt.gz">>
PathMp4 == <<"clip.mp4">>
PathEml == <<"mail.eml">>
PathMissing == <<"pics", "missing.png">>

Paths == {PathQ3, PathNotes, PathXyz, PathGz, PathMp4, PathEml, PathMissing}

\* the files open() can read; any other path raises IOError
Readable == Paths \ {PathMissing}

\* open(path, 'rb').read()
FileData(path) ==
    IF path = PathQ3 THEN <<37, 80>>
    ELSE IF path = PathNotes THEN <<104, 105>>
    ELSE IF path = PathGz THEN <<31, 139>>
    ELSE <<0>>

\* a faulty base name (the leading component of the path)
BasenameKeepingDir(path) == path[1]

\* os.path.basename(path): what follows the last '/'
Basename(path) == path[Len(path)]

\* the dot-suffixes of a file name, as repeated os.path.splitext finds them
Suffixes(name) ==
    CASE name = "Q3.pdf" -> <<".pdf">>
      [] name = "notes.txt" -> <<".txt">>
      [] name = "data.xyz" -> <<".xyz">>
      [] name = "logs.txt.gz" -> <<".txt", ".gz">>
      [] name = "clip.mp4" -> <<".mp4">>
      [] name = "mail.eml" -> <<".eml">>
      [] name = "missing.png" -> <<".png">>
      [] OTHER -> <<>>

\* mimetypes.encodings_map and mimetypes.types_map
EncodingOf(ext) ==
    CASE ext = ".gz" -> "gzip"
      [] ext = ".Z" -> "compress"
      [] ext = ".bz2" -> "bzip2"
      [] OTHER -> None

TypeOf(ext) ==
    CASE ext = ".pdf" -> "application/pdf"
      [] ext = ".txt" -> "text/plain"
      [] ext = ".png" -> "image/png"
      [] ext = ".wav" -> "audio/x-wav"
      [] ext = ".mp4" -> "video/mp4"
      [] ext = ".eml" -> "message/rfc822"
      [] OTHER -> None

\* mimetypes.guess_type(path): <<ctype, encoding>>
GuessType(path) ==
    LET sfx == Suffixes(Basename(path))
        last == IF sfx = <<>> THEN "" ELSE sfx[Len(sfx)]
        encoding == EncodingOf(last)
        ext == IF encoding = None THEN last
               ELSE IF Len(sfx) > 1 THEN sfx[Len(sfx) - 1] ELSE ""
    IN  <<TypeOf(ext), encoding>>

\* ctype.split('/', 1)
MainType(ctype) ==
    CASE ctype = "application/pdf" -> "application"
      [] ctype = "application/octet-stream" -> "application"
      [] ctype = "text/plain" -> "text"
      [] ctype = "image/png" -> "image"
      [] ctype = "audio/x-wav" -> "audio"
      [] ctype = "video/mp4" -> "video"
      [] ctype = "message/rfc822" -> "message"

SubType(ctype) ==
    CASE ctype = "application/pdf" -> "pdf"
      [] ctype = "application/octet-stream" -> "octet-stream"
      [] ctype = "text/plain" -> "plain"
      [] ctype = "image/png" -> "png"
      [] ctype = "audio/x-wav" -> "x-wav"
      [] ctype = "video/mp4" -> "mp4"
      [] ctype = "message/rfc822" -> "rfc822"

---------------------------------------------------------------------------
(* set_attachments *)

\* a faulty content type (the encoding of the guessed type is ignored)
ContentTypeNoFallback(path) ==
    LET g == GuessType(path)
    IN  IF g[1] = None THEN "application/octet-stream" ELSE g[1]

\* the content type set_attachments gives a path
ContentType(path) ==
    LET g == GuessType(path)
    IN  IF g[1] = None \/ g[2] # None THEN "application/octet-stream" ELSE g[1]

\* the families with a part class of their own
MimeFamilies == {"text", "image", "audio", "message", "application"}

\* the part built for one path whose file was read: error is "TypeError" where
\* MIMEMessage rejects data that is not a Message object
AttachmentPart(path, data) ==
    LET ctype == ContentType(path)
        maintype == MainType(ctype)
        subtype == SubType(ctype)
    IN  IF maintype = "message"
        THEN [error |-> "TypeError", part |-> MIMEBaseEncoded(maintype, subtype, data)]
        ELSE [error |-> "none",
              part |-> AddDisposition(
                  IF maintype = "text" THEN MIMEText(data, subtype, "us-ascii")
                  ELSE IF maintype = "image" THEN MIMEBinary("MIMEImage", maintype, data, subtype)
                  ELSE IF maintype = "audio" THEN MIMEBinary("MIMEAudio", maintype, data, subtype)
                  ELSE IF maintype = "application"
                       THEN MIMEBinary("MIMEApplication", maintype, data, subtype)
                  ELSE MIMEBaseEncoded(maintype, subtype, data),
                  Basename(path))]

\* the loop of set_attachments over paths, from the state st = [parts, error]:
\* it stops at the first path that raises, keeping the parts attached before it
RECURSIVE AttachAll(_, _)
AttachAll(st, paths) ==
    IF paths = <<>> THEN st
    ELSE LET path == Head(paths)
         IN  IF path \notin Readable THEN [st EXCEPT !.error = "IOError"]
             ELSE LET a == AttachmentPart(path, FileData(path))
                  IN  IF a.error # "none" THEN [st EXCEPT !.error = a.error]
                      ELSE AttachAll([st EXCEPT !.parts = Append(@, a.part)], Tail(paths))

\* a paths argument: a single path (type "str") or a list of paths
PathLists == SeqsUpTo(Paths, MaxPaths)

PathsInputs ==
    [type : {"list"}, items : PathLists] \cup {[type |-> "str", items |-> <<p>>] : p \in Paths}

PathsInputsByLen == [n \in 0..MaxPaths |-> {p \in PathsInputs : Len(p.items) = n}]

---------------------------------------------------------------------------
(* Recipient classes: set_recipients *)

KeyTo == <<116, 111>>           \* 'to'
KeyCc == <<99, 99>>             \* 'cc'
KeyBcc == <<98, 99, 99>>        \* 'bcc'

\* self.recipient_types
RecipientTypes == {KeyTo, KeyCc, KeyBcc}

\* str.lower()
LowerChar(c) == IF c >= 65 /\ c <= 90 THEN c + 32 ELSE c

RECURSIVE Lower(_)
Lower(s) == IF s = <<>> THEN <<>> ELSE <<LowerChar(Head(s))>> \o Lower(Tail(s))

\* a key argument: None (omitted) or a string
NoKey == [none |-> TRUE, s |-> <<>>]

Key(s) == [none |-> FALSE, s |-> s]

\* None, '', 'to', 'Cc', 'BCC', 'from'
KeyInputs ==
    {NoKey, Key(<<>>), Key(KeyTo), Key(<<67, 99>>), Key(<<66, 67, 67>>),
     Key(<<102, 114, 111, 109>>)}

\* an address string, 'Display Name <addr>' or 'addr', by its two portions
AddrA == [name |-> <<>>, addr |-> "a@x.com"]
AddrB == [name |-> <<74, 233>>, addr |-> "b@x.com"]

Addresses == {AddrA, AddrB}

AddressLists == SeqsUpTo(Addresses, MaxAddrs)

\* a recipients argument: one address (type "str"), a list of addresses, or a
\* tuple holding one address
RecipientInputs ==
    [type : {"list"}, items : AddressLists]
        \cup {[type |-> t, items |-> <<a>>] : t \in {"str", "tuple"}, a \in Addresses}

NoneValue == [type |-> "NoneType", items |-> <<>>]

\* the truth value of a recipients value
Truthy(v) == v.type # "NoneType" /\ v.items # <<>>

\* if type(recipients) not in (tuple, list): recipients = [recipients]
AsList(v) == IF v.type \in {"tuple", "list"} THEN v ELSE [type |-> "list", items |-> v.items]

\* the key set_recipients stores under
EffectiveKey(key) == Lower(IF key.none \/ key.s = <<>> THEN KeyTo ELSE key.s)

\* a faulty store (the addresses are added to the list stored before)
StoreMerged(rcpts, k, v) ==
    [c \in DOMAIN rcpts \cup {k} |->
        IF c # k THEN rcpts[c]
        ELSE IF k \in DOMAIN rcpts
             THEN [type |-> "list", items |-> rcpts[k].items \o AsList(v).items]
             ELSE AsList(v)]

\* self.recipients[key] = recipients
Store(rcpts, k, v) ==
    [c \in DOMAIN rcpts \cup {k} |-> IF c = k THEN AsList(v) ELSE rcpts[c]]

\* set_recipients(recipients, key): the exception raised and the mapping afterwards
SetRecipientsResult(rcpts, v, key) ==
    LET k == EffectiveKey(key)
    IN  IF k \notin RecipientTypes
        THEN [error |-> "MIMEMailError", recipients |-> rcpts]
        ELSE [error |-> "none", recipients |-> Store(rcpts, k, v)]

---------------------------------------------------------------------------
(* Headers: encode_header, format_address *)

\* tokens of a header value
WordTok(charset, bytes) == [kind |-> "word", text |-> "", charset |-> charset, bytes |-> bytes]
AddrTok(addr) == [kind |-> "addr", text |-> addr, charset |-> "", bytes |-> <<>>]
SepTok == [kind |-> "sep", text |-> ", ", charset |-> "", bytes |-> <<>>]

\* str(Header(unicode(value), 'iso-8859-1')): the value as it is when it is ASCII,
\* else an encoded word in iso-8859-1, or in utf-8 when iso-8859-1 cannot hold it
EncodeHeader(value) ==
    IF value = <<>> THEN <<>>
    ELSE LET cs == FirstCharset(value, <<"ascii", "iso-8859-1", "utf-8">>, 1)
         IN  <<WordTok(CanonicalCharset(cs), Encode(value, cs).bytes)>>

\* parseaddr(value) and formataddr((encode_header(name), addr))
FormatOne(a) ==
    IF a.name # <<>> THEN EncodeHeader(a.name) \o <<AddrTok(a.addr)>>
    ELSE IF a.addr = "" THEN <<>>
    ELSE <<AddrTok(a.addr)>>

\* ', '.join([format_address(v) for v in values])
RECURSIVE JoinFormatted(_)
JoinFormatted(items) ==
    IF items = <<>> THEN <<>>
    ELSE IF Len(items) = 1 THEN FormatOne(items[1])
    ELSE FormatOne(items[1]) \o <<SepTok>> \o JoinFormatted(Tail(items))

\* format_address(value); parseaddr(None) is ('', '')
FormatAddress(v) ==
    IF v.type \in {"tuple", "list"} THEN JoinFormatted(v.items)
    ELSE IF v.type = "NoneType" THEN <<>>
    ELSE FormatOne(v.items[1])

\* get_username(): the login name of the effective user (not on Windows, where it
\* is None)
UserName == [name |-> <<>>, addr |-> "root"]

Subjects == {[none |-> FALSE, s |-> <<84>>], [none |-> FALSE, s |-> <<233>>]}

\* unicode(value): unicode(None) is u'None'
Unicode(v) == IF v.none THEN <<78, 111, 110, 101>> ELSE v.s

---------------------------------------------------------------------------
(* send *)

\* the orders dict.values() can give the classes in
Orders(rcpts) ==
    {o \in SeqsUpTo(DOMAIN rcpts, Cardinality(DOMAIN rcpts)) :
        Len(o) = Cardinality(DOMAIN rcpts) /\ \A i, j \in 1..Len(o) : i # j => o[i] # o[j]}

\* sum((r for r in values if r), []): list + tuple raises TypeError
RECURSIVE SumLists(_, _, _)
SumLists(rcpts, order, acc) ==
    IF order = <<>> THEN [error |-> "none", list |-> acc]
    ELSE LET v == rcpts[Head(order)]
         IN  IF ~Truthy(v) THEN SumLists(rcpts, Tail(order), acc)
             ELSE IF v.type = "tuple" THEN [error |-> "TypeError", list |-> acc]
             ELSE SumLists(rcpts, Tail(order), acc \o v.items)

\* faulty headers (a BCC header is set like To and CC)
HeadersSetWithBcc(msg, rcpts, sender, subject) ==
    LET h1 == IF KeyTo \in DOMAIN rcpts
              THEN Append(msg.headers, <<"To", FormatAddress(rcpts[KeyTo])>>)
              ELSE msg.headers
        h2 == IF KeyCc \in DOMAIN rcpts
              THEN Append(h1, <<"CC", FormatAddress(rcpts[KeyCc])>>) ELSE h1
        h3 == IF KeyBcc \in DOMAIN rcpts
              THEN Append(h2, <<"BCC", FormatAddress(rcpts[KeyBcc])>>) ELSE h2
        s == EncodeHeader(Unicode(subject))
    IN  [msg EXCEPT !.headers = h3 \o <<<<"From", FormatOne(sender)>>, <<"Subject", s>>>>,
                    !.preamble = [set |-> TRUE, text |-> s],
                    !.epilogue = [set |-> TRUE, text |-> <<>>]]

\* lines 189-197 of send: the message with its headers, preamble and epilogue set
HeadersSet(msg, rcpts, sender, subject) ==
    LET h1 == IF KeyTo \in DOMAIN rcpts
              THEN Append(msg.headers, <<"To", FormatAddress(rcpts[KeyTo])>>)
              ELSE msg.headers
        h2 == IF KeyCc \in DOMAIN rcpts
              THEN Append(h1, <<"CC", FormatAddress(rcpts[KeyCc])>>) ELSE h1
        s == EncodeHeader(Unicode(subject))
    IN  [msg EXCEPT !.headers = h2 \o <<<<"From", FormatOne(sender)>>, <<"Subject", s>>>>,
                    !.preamble = [set |-> TRUE, text |-> s],
                    !.epilogue = [set |-> TRUE, text |-> <<>>]]

\* line 198 and line 199 of send, with dict.values() in the given order: the
\* exception raised and the sendmail calls afterwards
Delivered(msg, rcpts, sender, order, calls) ==
    LET sum == SumLists(rcpts, order, <<>>)
    IN  IF sum.error # "none" THEN [error |-> sum.error, calls |-> calls]
        ELSE [error |-> "none",
              calls |-> Append(calls, [sender |-> sender, recipients |-> sum.list,
                                       msg |-> msg])]

\* if not sender: sender = get_username()
EffectiveSender(sender) == IF sender.none THEN UserName ELSE sender.a

NoSender == [none |-> TRUE, a |-> UserName]

SenderInputs == {NoSender, [none |-> FALSE, a |-> AddrB]}

NoText == [none |-> TRUE, s |-> <<>>]

Text(s) == [none |-> FALSE, s |-> s]

---------------------------------------------------------------------------
(* The initial state: MIMEMail.__init__ *)

NewMessage ==
    [parts |-> <<>>, headers |-> <<>>,
     preamble |-> [set |-> FALSE, text |-> <<>>],
     epilogue |-> [set |-> FALSE, text |-> <<>>]]

NoArgs ==
    [body_text |-> NoText, body_file |-> NoText, stdin |-> <<>>,
     to |-> NoneValue, cc |-> NoneValue, bcc |-> NoneValue,
     attachments |-> <<>>, subject |-> NoText, sender |-> NoSender]

NoCall == [op |-> "init", key |-> NoKey, value |-> NoneValue]

InitObject ==
    /\ message = NewMessage
    /\ recipients = [c \in {} |-> NoneValue]
    /\ session = "closed"
    /\ sendmail_calls = <<>>
    /\ error = "none"
    /\ call = NoCall
    /\ body_log = <<>>
    /\ attach_log = <<>>
    /\ body_source = None

\* a caller of the library holds a new MIMEMail object
Init ==
    /\ InitObject
    /\ pc = "api"
    /\ args = NoArgs

---------------------------------------------------------------------------
(* The builder's methods, called by a user of the library *)

\* a faulty set_body (the body parts attached before are dropped)
SetBodyReplacing(text) ==
    /\ pc = "api"
    /\ Len(message.parts) < MaxParts
    /\ message' = [message EXCEPT !.parts =
                        SelectSeq(@, LAMBDA p : p.disposition = "attachment")
                            \o <<BodyPart(text)>>]
    /\ body_log' = Append(body_log, text)
    /\ error' = "none"
    /\ call' = [op |-> "set_body", key |-> NoKey, value |-> NoneValue]
    /\ UNCHANGED <<recipients, session, sendmail_calls, pc, args, attach_log, body_source>>

SetBody(text) ==
    /\ pc = "api"
    /\ Len(message.parts) < MaxParts
    /\ message' = [message EXCEPT !.parts = Append(@, BodyPart(text))]
    /\ body_log' = Append(body_log, text)
    /\ error' = "none"
    /\ call' = [op |-> "set_body", key |-> NoKey, value |-> NoneValue]
    /\ UNCHANGED <<recipients, session, sendmail_calls, pc, args, attach_log, body_source>>

\* if type(paths) not in (tuple, list): paths = [paths]
SetAttachments(paths) ==
    /\ pc = "api"
    /\ Len(message.parts) + Len(paths.items) <= MaxParts
    /\ LET st == AttachAll([parts |-> message.parts, error |-> "none"], paths.items)
       IN  /\ message' = [message EXCEPT !.parts = st.parts]
           /\ attach_log' = attach_log \o SubSeq(paths.items, 1, Len(st.parts) - Len(message.parts))
           /\ error' = st.error
    /\ call' = [op |-> "set_attachments", key |-> NoKey, value |-> NoneValue]
    /\ UNCHANGED <<recipients, session, sendmail_calls, pc, args, body_log, body_source>>

SetRecipients(v, key) ==
    /\ pc = "api"
    /\ LET r == SetRecipientsResult(recipients, v, key)
       IN  /\ recipients' = r.recipients
           /\ error' = r.error
    /\ call' = [op |-> "set_recipients", key |-> key, value |-> v]
    /\ UNCHANGED <<message, session, sendmail_calls, pc, args, body_log, attach_log,
                   body_source>>

SetTo(v) == SetRecipients(v, Key(KeyTo))

SetCc(v) == SetRecipients(v, Key(KeyCc))

SetBcc(v) == SetRecipients(v, Key(KeyBcc))

\* send(smtp=None, subject, sender): smtp_session() opens the default session, and
\* raises when the relay cannot be reached
Send(subject, sender) ==
    /\ pc = "api"
    /\ pc' = "consumed"
    /\ call' = [op |-> "send", key |-> NoKey, value |-> NoneValue]
    /\ \/ /\ error' = "socket.error"
          /\ UNCHANGED <<message, session, sendmail_calls>>
       \/ /\ session' = "open"
          /\ message' = HeadersSet(message, recipients, EffectiveSender(sender), subject)
          /\ \E order \in Orders(recipients) :
                LET d == Delivered(message', recipients, EffectiveSender(sender), order,
                                   sendmail_calls)
                IN  /\ error' = d.error
                    /\ sendmail_calls' = d.calls
    /\ UNCHANGED <<recipients, args, body_log, attach_log, body_source>>

NextBuilder ==
    \/ \E text \in BodyTexts : SetBody(text)
    \/ \E n \in 0..MaxPaths :
          /\ Len(message.parts) + n <= MaxParts
          /\ \E paths \in PathsInputsByLen[n] : SetAttachments(paths)

NextRecipients ==
    \/ \E v \in RecipientInputs, key \in KeyInputs : SetRecipients(v, key)
    \/ \E v \in RecipientInputs : SetTo(v)
    \/ \E v \in RecipientInputs : SetCc(v)
    \/ \E v \in RecipientInputs : SetBcc(v)
    \/ \E subject \in Subjects, sender \in SenderInputs : Send(subject, sender)

\* a caller that builds the parts of a message
SpecBuilder == Init /\ [][NextBuilder]_vars

\* a caller that sets the recipients and sends
SpecRecipients == Init /\ [][NextRecipients]_vars

---------------------------------------------------------------------------
(* main(): the command line driver *)

BodyFile == <<"body.txt">>
BodyFileMissing == <<"nobody.txt">>

\* open(args.body_file).read(), decoded
BodyFileText(path) == <<65, 233>>

BodyFileReadable(path) == path = BodyFile

\* the command lines: an option that was not given is None; --to, --cc and --bcc
\* append to a list
ArgsInputs ==
    [body_text : {NoText, Text(<<>>), Text(<<8364>>)},
     body_file : {NoText, Text(<<>>), Text(BodyFile), Text(BodyFileMissing)},
     stdin : {<<>>, <<65>>},
     to : {NoneValue, [type |-> "list", items |-> <<AddrA>>]},
     cc : {NoneValue, [type |-> "list", items |-> <<AddrB>>]},
     bcc : {NoneValue, [type |-> "list", items |-> <<AddrB>>]},
     attachments : SeqsUpTo({PathQ3, PathXyz, PathMissing}, MaxPaths),
     subject : {NoText, Text(<<84>>)},
     sender : {NoSender}]

\* the truth value of an option holding a string
Given(opt) == ~opt.none /\ opt.s # <<>>

\* the source the precedence by "was supplied" selects
BodySourceIfSupplied(a) ==
    IF ~a.body_text.none THEN "text"
    ELSE IF ~a.body_file.none THEN "file"
    ELSE "stdin"

\* lines 100-105: the source main() takes the body from
BodySource(a) ==
    IF Given(a.body_text) THEN "text"
    ELSE IF Given(a.body_file) THEN "file"
    ELSE "stdin"

InitMain ==
    /\ InitObject
    /\ pc = "main_body"
    /\ args \in ArgsInputs

\* lines 99-106
MainBody ==
    /\ pc = "main_body"
    /\ body_source' = BodySource(args)
    /\ call' = [op |-> "set_body", key |-> NoKey, value |-> NoneValue]
    /\ IF body_source' = "file" /\ ~BodyFileReadable(args.body_file.s)
       THEN /\ error' = "IOError"
            /\ pc' = "main_failed"
            /\ UNCHANGED <<message, body_log>>
       ELSE LET body == IF body_source' = "text" THEN args.body_text.s
                        ELSE IF body_source' = "file" THEN BodyFileText(args.body_file.s)
                        ELSE args.stdin
            IN  /\ message' = [message EXCEPT !.parts = Append(@, BodyPart(body))]
                /\ body_log' = Append(body_log, body)
                /\ error' = "none"
                /\ pc' = "main_recipients"
    /\ UNCHANGED <<recipients, session, sendmail_calls, args, attach_log>>

\* lines 108-110
MainRecipients ==
    /\ pc = "main_recipients"
    /\ recipients' = [c \in RecipientTypes |->
                        IF c = KeyTo THEN args.to ELSE IF c = KeyCc THEN args.cc ELSE args.bcc]
    /\ pc' = "main_attachments"
    /\ UNCHANGED <<message, session, sendmail_calls, args, error, call, body_log,
                   attach_log, body_source>>

\* a faulty line 112 (main goes on after set_attachments raised)
MainAttachmentsSwallow ==
    /\ pc = "main_attachments"
    /\ LET st == AttachAll([parts |-> message.parts, error |-> "none"], args.attachments)
       IN  /\ message' = [message EXCEPT !.parts = st.parts]
           /\ attach_log' = attach_log \o SubSeq(args.attachments, 1, Len(st.parts) - Len(message.parts))
           /\ error' = st.error
           /\ pc' = "main_session"
    /\ call' = [op |-> "set_attachments", key |-> NoKey, value |-> NoneValue]
    /\ UNCHANGED <<recipients, session, sendmail_calls, args, body_log, body_source>>

\* line 112
MainAttachments ==
    /\ pc = "main_attachments"
    /\ LET st == AttachAll([parts |-> message.parts, error |-> "none"], args.attachments)
       IN  /\ message' = [message EXCEPT !.parts = st.parts]
           /\ attach_log' = attach_log \o SubSeq(args.attachments, 1, Len(st.parts) - Len(message.parts))
           /\ error' = st.error
           /\ pc' = IF st.error = "none" THEN "main_session" ELSE "main_failed"
    /\ call' = [op |-> "set_attachments", key |-> NoKey, value |-> NoneValue]
    /\ UNCHANGED <<recipients, session, sendmail_calls, args, body_log, body_source>>

\* lines 113-119: smtp_session raises when the relay cannot be reached
MainSession ==
    /\ pc = "main_session"
    /\ \/ /\ session' = "open"
          /\ pc' = "main_send"
          /\ UNCHANGED error
       \/ /\ error' = "socket.error"
          /\ pc' = "main_failed"
          /\ UNCHANGED session
    /\ UNCHANGED <<message, recipients, sendmail_calls, args, call, body_log, attach_log,
                   body_source>>

\* line 120: mail.send(smtp, args.subject, args.sender)
MainSend ==
    /\ pc = "main_send"
    /\ call' = [op |-> "send", key |-> NoKey, value |-> NoneValue]
    /\ message' = HeadersSet(message, recipients, EffectiveSender(args.sender), args.subject)
    /\ \E order \in Orders(recipients) :
          LET d == Delivered(message', recipients, EffectiveSender(args.sender), order,
                             sendmail_calls)
          IN  /\ error' = d.error
              /\ sendmail_calls' = d.calls
              /\ pc' = IF d.error = "none" THEN "main_done" ELSE "main_failed"
    /\ UNCHANGED <<recipients, session, args, body_log, attach_log, body_source>>

NextMain ==
    \/ MainBody
    \/ MainRecipients
    \/ MainAttachments
    \/ MainSession
    \/ MainSend

\* one run of the command line driver
SpecMain == InitMain /\ [][NextMain]_vars

---------------------------------------------------------------------------
(* Properties of the message parts *)

\* the body parts and the attachment parts of a message, in message order
BodyPartsOf(msg) == SelectSeq(msg.parts, LAMBDA p : p.disposition # "attachment")

AttachmentPartsOf(msg) == SelectSeq(msg.parts, LAMBDA p : p.disposition = "attachment")

AllBelow(text, n) == \A i \in 1..Len(text) : text[i] < n

\* C1: every body part is tagged with the first of us-ascii, iso-8859-1, utf-8 that
\* holds its text (us-ascii for ASCII text, iso-8859-1 and not utf-8 for text within
\* Latin-1, utf-8 otherwise), and its bytes decoded with that charset are the text.
C1_BodyCharset ==
    LET bp == BodyPartsOf(message)
    IN  /\ Len(bp) = Len(body_log)
        /\ \A i \in 1..Len(bp) :
              /\ bp[i].charset =
                    IF AllBelow(body_log[i], 128) THEN "us-ascii"
                    ELSE IF AllBelow(body_log[i], 256) THEN "iso-8859-1"
                    ELSE "utf-8"
              /\ Decode(bp[i].payload, bp[i].charset) = body_log[i]

\* a Latin-1 body next to a body that needs utf-8
C1_Witness ==
    /\ Len(body_log) = 2
    /\ body_log[1] = <<65, 233>>
    /\ body_log[2] = <<233, 8364>>
    /\ message.parts[1].charset = "iso-8859-1"
    /\ message.parts[2].charset = "utf-8"

\* C5: the attachment parts are in the order of the paths given (over all calls of
\* set_attachments), each with Content-Disposition 'attachment' and the last
\* component of its path as the file name.
C5_AttachmentOrder ==
    LET ap == AttachmentPartsOf(message)
    IN  /\ Len(ap) = Len(attach_log)
        /\ \A i \in 1..Len(ap) :
              /\ ap[i].disposition = "attachment"
              /\ ap[i].filename = attach_log[i][Len(attach_log[i])]
              /\ ap[i].payload = FileData(attach_log[i])

\* two attachments, the second given with its directory
C5_Witness ==
    /\ attach_log = <<PathXyz, PathQ3>>
    /\ Len(message.parts) = 2
    /\ message.parts[1].filename = "data.xyz"
    /\ message.parts[2].filename = "Q3.pdf"

\* C8: a path whose type is not recognized, or whose guessed type has an encoding,
\* becomes application/octet-stream in base64; a path whose maintype is none of
\* text, image, audio, message, application becomes a MIMEBase part in base64.
C8_AttachmentClass ==
    LET ap == AttachmentPartsOf(message)
    IN  /\ Len(ap) = Len(attach_log)
        /\ \A i \in 1..Len(ap) :
              LET g == GuessType(attach_log[i])
              IN  /\ (g[1] = None \/ g[2] # None) =>
                        /\ ap[i].maintype = "application"
                        /\ ap[i].subtype = "octet-stream"
                        /\ ap[i].cte = "base64"
                  /\ (g[1] # None /\ g[2] = None /\ MainType(g[1]) \notin MimeFamilies) =>
                        /\ ap[i].class = "MIMEBase"
                        /\ ap[i].maintype = MainType(g[1])
                        /\ ap[i].cte = "base64"

\* a compressed file next to a video
C8_Witness ==
    /\ attach_log = <<PathGz, PathMp4>>
    /\ Len(message.parts) = 2
    /\ message.parts[1].subtype = "octet-stream"
    /\ message.parts[2].class = "MIMEBase"

\* C9: a call of set_body adds one text/plain body part at the end of the parts and
\* leaves the parts before it as they were; the body parts are as many as the calls,
\* in call order.
C9_BodyAppended ==
    [][call'.op = "set_body" =>
          LET n == Len(message.parts)
              bp == BodyPartsOf(message')
          IN  /\ Len(message'.parts) = n + 1
              /\ SubSeq(message'.parts, 1, n) = message.parts
              /\ message'.parts[n + 1].maintype = "text"
              /\ message'.parts[n + 1].subtype = "plain"
              /\ message'.parts[n + 1].disposition # "attachment"
              /\ Len(bp) = Len(body_log')
              /\ \A i \in 1..Len(bp) : Decode(bp[i].payload, bp[i].charset) = body_log'[i]
      ]_vars

\* set_body called a second time
C9_Witness ==
    /\ call.op = "set_body"
    /\ Len(body_log) = 2
    /\ Len(BodyPartsOf(message)) = 2

---------------------------------------------------------------------------
(* Properties of the recipients and of send *)

\* the addresses of a list of address strings, and those a header value names
AddrsOf(items) == {items[i].addr : i \in 1..Len(items)}

HeaderAddrs(value) == {value[i].text : i \in {j \in 1..Len(value) : value[j].kind = "addr"}}

HeaderNames(msg) == {msg.headers[i][1] : i \in 1..Len(msg.headers)}

HeaderValues(msg, name) ==
    {msg.headers[i][2] : i \in {j \in 1..Len(msg.headers) : msg.headers[j][1] = name}}

ItemsOf(rcpts, k) == IF k \in DOMAIN rcpts THEN rcpts[k].items ELSE <<>>

\* C2: the message send renders has no BCC header, its To and CC headers name the
\* to and cc addresses only, and a BCC address that is no to, cc or sender address is
\* in no header; the recipient list given to sendmail holds every to, cc and bcc
\* address.
C2_BccDeliveryOnly ==
    /\ HeaderNames(message) \subseteq {"To", "CC", "From", "Subject"}
    /\ \A v \in HeaderValues(message, "To") :
          HeaderAddrs(v) = AddrsOf(ItemsOf(recipients, KeyTo))
    /\ \A v \in HeaderValues(message, "CC") :
          HeaderAddrs(v) = AddrsOf(ItemsOf(recipients, KeyCc))
    /\ \A i \in 1..Len(sendmail_calls) :
          LET c == sendmail_calls[i]
              visible == AddrsOf(ItemsOf(recipients, KeyTo))
                            \cup AddrsOf(ItemsOf(recipients, KeyCc)) \cup {c.sender.addr}
          IN  /\ c.msg = message
              /\ \A k \in RecipientTypes :
                    AddrsOf(ItemsOf(recipients, k)) \subseteq AddrsOf(c.recipients)
              /\ \A b \in AddrsOf(ItemsOf(recipients, KeyBcc)) \ visible :
                    \A name \in HeaderNames(c.msg) :
                        \A v \in HeaderValues(c.msg, name) : b \notin HeaderAddrs(v)

\* a message sent to one address with another address in BCC
C2_Witness ==
    /\ Len(sendmail_calls) = 1
    /\ KeyTo \in DOMAIN recipients
    /\ KeyBcc \in DOMAIN recipients
    /\ recipients[KeyTo].items = <<AddrA>>
    /\ recipients[KeyBcc].items = <<AddrB>>
    /\ AddrB \in {sendmail_calls[1].recipients[i] : i \in 1..Len(sendmail_calls[1].recipients)}
    /\ sendmail_calls[1].sender = UserName

\* C3: set_recipients with a class outside {to, cc, bcc}, compared without regard
\* to case, raises the invalid-class error and leaves the mapping as it was.
C3_InvalidClassRejected ==
    [][(call'.op = "set_recipients" /\ ~call'.key.none
            /\ Lower(call'.key.s) \notin RecipientTypes) =>
          (error' = "MIMEMailError" /\ recipients' = recipients)
      ]_vars

\* C4: the message send produces has a To header only if the 'to' class holds an
\* address, and a CC header only if the 'cc' class holds an address.
C4_HeaderOnlyIfAddress ==
    /\ "To" \in HeaderNames(message) => ItemsOf(recipients, KeyTo) # <<>>
    /\ "CC" \in HeaderNames(message) => ItemsOf(recipients, KeyCc) # <<>>

\* C7: set_recipients with a valid class (or none, which is 'to') stores exactly the
\* addresses given under that class, one address as a list of one, instead of
\* whatever was stored there, and leaves the other classes as they were.
C7_RecipientsReplaced ==
    [][(call'.op = "set_recipients"
            /\ (call'.key.none \/ Lower(call'.key.s) \in RecipientTypes)) =>
          LET k == IF call'.key.none THEN KeyTo ELSE Lower(call'.key.s)
          IN  /\ error' = "none"
              /\ k \in DOMAIN recipients'
              /\ recipients'[k].items = call'.value.items
              /\ call'.value.type = "str" => recipients'[k].type = "list"
              /\ call'.value.type # "str" => recipients'[k] = call'.value
              /\ DOMAIN recipients' = DOMAIN recipients \cup {k}
              /\ \A c \in DOMAIN recipients \ {k} : recipients'[c] = recipients[c]
      ]_vars

\* one address given without a class, with lists stored for the other classes
C7_Witness ==
    /\ call.op = "set_recipients"
    /\ call.key.none
    /\ call.value = [type |-> "str", items |-> <<AddrB>>]
    /\ DOMAIN recipients = RecipientTypes
    /\ recipients[KeyTo] = [type |-> "list", items |-> <<AddrB>>]
    /\ recipients[KeyCc].items = <<AddrA>>

---------------------------------------------------------------------------
(* Properties of main() *)

\* C6: once reading the body file or an attachment has failed, the failure stays,
\* no session is opened and sendmail is never called.
C6_ReadFailureAborts ==
    /\ [](error = "IOError" =>
            (pc = "main_failed" /\ session = "closed" /\ sendmail_calls = <<>>))
    /\ [][error = "IOError" =>
            (error' = "IOError" /\ session' = "closed" /\ sendmail_calls' = <<>>)]_vars

\* an attachment that cannot be read, after the body and one attachment were attached
C6_Witness ==
    /\ pc = "main_failed"
    /\ error = "IOError"
    /\ call.op = "set_attachments"
    /\ Len(message.parts) = 2
    /\ session = "closed"

\* C10: main() takes the body from the text option whenever it was given, else from
\* the body file whenever it was given, else from standard input, also when the
\* value given is empty.
C10_BodySourcePrecedence ==
    pc # "main_body" => body_source = BodySourceIfSupplied(args)

====
